---- MODULE Spec2Model ----
(***************************************************************************)
(* The telemetry ingestor (telemetry_ingest.py): the line decoder, the     *)
(* reconnecting serial reader, the per-packet dispatch to the SQLite       *)
(* store and the two mirror files, and the cooperative shutdown; and the   *)
(* refresh timer of the viewer (telemetry_tabs.py).                        *)
(*                                                                         *)
(* A text line is a sequence of lexical tokens (strings).  White space     *)
(* between the tokens of the packet body is not represented; the token     *)
(* " " stands for white space at the ends of a line or of a payload piece. *)
(* Floating point payload values are represented by integers, and the      *)
(* float nan by NaN.                                                       *)
(***************************************************************************)
EXTENDS Integers, Sequences, FiniteSets, TLC

\* ---------------------------------------------------------------- bounds
\* The number of lines the device sends in one run.
MaxLines == 2
\* The number of refreshes of the viewer that are followed.
MaxRefreshes == 3
\* The number of times the window is asked to close.
MaxCloses == 2

\* ------------------------------------------------------------- the decoder
TELEM_PREFIX == "on_radio_packet:"

\* \d+
IntToks == {"5", "10", "12"}
\* [A-Za-z0-9_-]+
IdentToks == {"baro", "X", "A", "SD", "RADIO"} \cup IntToks
\* float("nan")
NaN == -1

\* the tokens float() accepts, with their values
FloatToks == {"1", "2", "3", "nan"} \cup IntToks

int(t) ==
  CASE t = "5" -> 5 [] t = "10" -> 10 [] t = "12" -> 12

float(t) ==
  CASE t = "1" -> 1 [] t = "2" -> 2 [] t = "3" -> 3 [] t = "nan" -> NaN
    [] OTHER -> int(t)

upper(t) ==
  CASE t = "baro" -> "BARO" [] OTHER -> t

\* the least i >= from with s[i] = t, or 0
RECURSIVE FirstIndex(_, _, _)
FirstIndex(s, from, t) ==
  IF from > Len(s) THEN 0
  ELSE IF s[from] = t THEN from
  ELSE FirstIndex(s, from + 1, t)

Tok(s, i) == IF i \in 1..Len(s) THEN s[i] ELSE "<end>"

RECURSIVE lstrip(_)
lstrip(s) ==
  IF s # <<>> /\ Head(s) = " " THEN lstrip(Tail(s)) ELSE s

RECURSIVE rstrip(_)
rstrip(s) ==
  IF s # <<>> /\ s[Len(s)] = " " THEN rstrip(SubSeq(s, 1, Len(s) - 1)) ELSE s

strip(s) == rstrip(lstrip(s))

RECURSIVE split(_, _)
split(s, sep) ==
  LET i == FirstIndex(s, 1, sep)
  IN  IF i = 0 THEN <<s>>
      ELSE <<SubSeq(s, 1, i - 1)>> \o split(SubSeq(s, i + 1, Len(s)), sep)

NoMatch == [matched |-> FALSE]

closing_optional(s, from) == Len(s) >= from

\* "(?P<data>.*)\}\s*$": the data, which may be empty, starts at s[from] and
\* the line ends with the closing brace
closing(s, from) == Len(s) >= from /\ s[Len(s)] = "}"

\* PACKET_RE.match(s): the groups of the match, or NoMatch.  The pattern is
\* anchored at both ends; the sender runs to the first comma, the endpoints
\* to the first "]", the human timestamp to the first ")" and the data
\* (greedy) to the "}" that ends the line.  Keywords are written in one
\* case only, so re.IGNORECASE is not represented.
PACKET_RE(s) ==
  LET c1 == FirstIndex(s, 10, ",")
      rb == FirstIndex(s, c1 + 3, "]")
      rp == FirstIndex(s, rb + 5, ")")
  IN  IF /\ Tok(s, 1) = TELEM_PREFIX
         /\ Tok(s, 2) = "{"
         /\ Tok(s, 3) = "Type:"
         /\ Tok(s, 4) \in IdentToks
         /\ Tok(s, 5) = ","
         /\ Tok(s, 6) = "Size:"
         /\ Tok(s, 7) \in IntToks
         /\ Tok(s, 8) = ","
         /\ Tok(s, 9) = "Sender:"
         /\ c1 > 10
         /\ Tok(s, c1 + 1) = "Endpoints:"
         /\ Tok(s, c1 + 2) = "["
         /\ rb > 0
         /\ Tok(s, rb + 1) = ","
         /\ Tok(s, rb + 2) = "Timestamp:"
         /\ Tok(s, rb + 3) \in IntToks
         /\ Tok(s, rb + 4) = "("
         /\ rp > 0
         /\ Tok(s, rp + 1) = ","
         /\ Tok(s, rp + 2) = "Data:"
         /\ closing(s, rp + 3)
      THEN [matched |-> TRUE,
            type |-> s[4],
            size |-> s[7],
            sender |-> SubSeq(s, 10, c1 - 1),
            endpoints |-> SubSeq(s, c1 + 3, rb - 1),
            ts_ms |-> s[rb + 3],
            ts_human |-> SubSeq(s, rb + 5, rp - 1),
            data |-> SubSeq(s, rp + 3, Len(s) - 1)]
      ELSE NoMatch

\* [p.strip() for p in s.split(",") if p.strip()]
parse_endpoints(s) ==
  LET parts == split(s, ",")
      stripped == [i \in 1..Len(parts) |-> strip(parts[i])]
  IN  SelectSeq(stripped, LAMBDA p : p # <<>>)

\* float(piece) raises ValueError
ValueError(piece) == ~(Len(piece) = 1 /\ piece[1] \in FloatToks)

\* vals.append(float(piece))
append(vals, v) == Append(vals, v)

RECURSIVE data_loop_placeholder(_, _)
data_loop_placeholder(pieces, vals) ==
  IF pieces = <<>> THEN vals
  ELSE LET piece == strip(Head(pieces))
       IN  IF piece = <<>> THEN data_loop_placeholder(Tail(pieces), vals)
           ELSE data_loop_placeholder(
                  Tail(pieces),
                  append(vals, IF ValueError(piece) THEN 0 ELSE float(piece[1])))

RECURSIVE data_loop(_, _)
data_loop(pieces, vals) ==
  IF pieces = <<>> THEN vals
  ELSE LET piece == strip(Head(pieces))
       IN  IF piece = <<>> THEN data_loop(Tail(pieces), vals)
           ELSE IF ValueError(piece) THEN data_loop(Tail(pieces), vals)
           ELSE data_loop(Tail(pieces), append(vals, float(piece[1])))

parse_data_values(s) == data_loop(split(s, ","), <<>>)

None == [none |-> TRUE]

parse_packet_line(text) ==
  LET m == PACKET_RE(strip(text))
  IN  IF ~m.matched THEN None
      ELSE [type |-> upper(m.type),
            size_bytes |-> int(m.size),
            sender |-> strip(m.sender),
            endpoints |-> parse_endpoints(m.endpoints),
            timestamp_ms |-> int(m.ts_ms),
            timestamp_human |-> strip(m.ts_human),
            values |-> parse_data_values(m.data)]

\* ------------------------------------------------------------ the device
\* The lines the device sends: a packet with two values, a packet whose
\* payload holds a token that is no number, a packet with an empty payload,
\* a telemetry line missing its closing brace, and a log line that is no
\* telemetry.
Head_ ==
  <<TELEM_PREFIX, "{", "Type:", "baro", ",", "Size:", "12", ",",
    "Sender:", "A", ",", "Endpoints:", "[", "SD", ",", "RADIO", "]", ",",
    "Timestamp:", "10", "(", "3s", ")", ",", "Data:">>

LineTwo == Head_ \o <<"1", ",", "2", "}">>
LineSkip == Head_ \o <<"3", ",", "x", ",", "1", "}">>
LineEmpty == Head_ \o <<"}">>
LineNoBrace == Head_ \o <<"1", ",", "2">>
LineLog == <<"boot", "ok">>

DeviceLines == {LineTwo, LineSkip, LineEmpty, LineNoBrace, LineLog}

\* The lines the decoder is tried on.  Each is made of: white space or other
\* text before it, the label or none, the size keyword, the parenthetical
\* after the timestamp or none, the payload keyword, the payload bare or in
\* parentheses, and other text after the closing brace or none.
Payloads == {<<"1", ",", "2">>, <<"3", ",", "x", ",", "1">>, <<>>}

Shapes ==
  [pre : {<<>>, <<" ">>, <<"#">>}, label : BOOLEAN,
   size_key : {"Size:", "Data Size:"}, human : BOOLEAN,
   data_key : {"Data:", "Error:"}, wrapped : BOOLEAN, payload : Payloads,
   post : {<<>>, <<"#">>}]

Line(c) ==
  c.pre \o (IF c.label THEN <<TELEM_PREFIX>> ELSE <<>>) \o
  <<"{", "Type:", "baro", ",", c.size_key, "12", ",", "Sender:", "A", ",",
    "Endpoints:", "[", "SD", ",", "RADIO", "]", ",", "Timestamp:", "10">> \o
  (IF c.human THEN <<"(", "3s", ")">> ELSE <<>>) \o
  <<",", c.data_key>> \o
  (IF c.wrapped THEN <<"(">> \o c.payload \o <<")">> ELSE c.payload) \o
  <<"}">> \o c.post

\* {Type: X, Data Size: 5, Sender: A, Endpoints: [], Timestamp: 10, Error: (1,2)}
ScenarioB ==
  <<"{", "Type:", "X", ",", "Data Size:", "5", ",", "Sender:", "A", ",",
    "Endpoints:", "[", "]", ",", "Timestamp:", "10", ",", "Error:",
    "(", "1", ",", "2", ")", "}">>

\* a sender with a quotation mark and a backslash in its name
LineQuote ==
  <<TELEM_PREFIX, "{", "Type:", "baro", ",", "Size:", "12", ",",
    "Sender:", "A", "\"", "\\", ",", "Endpoints:", "[", "SD", "]", ",",
    "Timestamp:", "10", "(", "3s", ")", ",", "Data:", "1", "}">>

\* a payload with the token nan, as printf writes a float that is no number
LineNaN == Head_ \o <<"nan", ",", "2", "}">>

GrammarLines == {Line(c) : c \in Shapes} \cup {ScenarioB, LineQuote, LineNaN}

KnownLines == DeviceLines \cup GrammarLines

\* ------------------------------------------------------------- the state
VARIABLES
  args,               \* the parsed command line (main, lines 163-173)
  stopping,           \* stopping["stop"]
  pc,                 \* where main is
  ser,                \* the serial handle: "none", "open" or "closed"
  reopened,           \* history: the port was opened after a close
  polls,              \* parity of the reads that timed out
  received,           \* history: the lines the device has sent, in order
  line,               \* the loop variable of "for line in read_lines(ser)"
  pkt,                \* the packet decoded from it
  exc,                \* the exception leaving the try block, or "none"
  telemetry_packets,  \* the committed rows of the table, in id order
  telemetry_values,   \* the committed rows of the table, in id order
  packet_id,          \* cur.lastrowid in insert_packet
  k,                  \* how many value rows executemany has inserted
  txt_file,           \* the lines of the text mirror
  jsonl_file,         \* the lines of the JSON-lines mirror
  failed,             \* history: <<sink, line number>> of every sink failure
  sig,                \* history: what main was doing when the signal arrived
  running,            \* TelemetryTabsApp.running
  pending,            \* the update_loop callbacks root.after has scheduled
  destroying,         \* the root.destroy callbacks root.after has scheduled
  destroyed,          \* root.destroy has run: the window and its timers are gone
  closed,             \* history: on_close has run
  returned,           \* history: update_loop has returned at its first test
  refreshes           \* history: how often update_loop went on to query the store

vars ==
  <<args, stopping, pc, ser, reopened, polls, received, line, pkt, exc,
    telemetry_packets, telemetry_values, packet_id, k, txt_file, jsonl_file,
    failed, sig, running, pending, destroying, destroyed, closed, returned,
    refreshes>>

\* the state of the ingestor, and the state of the viewer
ingest ==
  <<args, stopping, pc, ser, reopened, polls, received, line, pkt, exc,
    telemetry_packets, telemetry_values, packet_id, k, txt_file, jsonl_file,
    failed, sig>>

viewer ==
  <<running, pending, destroying, destroyed, closed, returned, refreshes>>

\* the tables and files the sinks write
sinks == <<telemetry_packets, telemetry_values, txt_file, jsonl_file>>

\* where main is while it hands a decoded packet to the sinks
DispatchPcs == {"db", "db_values", "txt", "jsonl"}

NoSig == [inflight |-> FALSE, ln |-> 0]

\* the number of the line in hand: its place in what the device has sent
ln == Len(received)

\* "args.no_db is None and args.no_db != False"
db_enabled(a) == a.no_db = "None" /\ a.no_db # "False"

\* "if args.out_txt:", "if args.out_jsonl:"
truthy(x) == x # "None" /\ x # ""

Configs ==
  {a \in [no_db : {"None", "True"}, out_txt : {"None", "t.txt"},
          out_jsonl : {"None", "t.jsonl"}, file_flag : {"None", "TELEM"}] :
     a.out_jsonl = "None" => a.file_flag = "None"}

\* TelemetryTabsApp.__init__: "self.running = True" and the first
\* "self.root.after(self.refresh_ms, self.update_loop)"
TelemetryTabsApp ==
  /\ running = TRUE
  /\ pending = 1
  /\ destroying = 0
  /\ destroyed = FALSE
  /\ closed = FALSE
  /\ returned = FALSE
  /\ refreshes = 0

Init ==
  /\ TelemetryTabsApp
  /\ args \in Configs
  /\ stopping = FALSE
  /\ pc = "loop"
  /\ ser = "none"
  /\ reopened = FALSE
  /\ polls = 0
  /\ received = <<>>
  /\ line = <<>>
  /\ pkt = None
  /\ exc = "none"
  /\ telemetry_packets = <<>>
  /\ telemetry_values = <<>>
  /\ packet_id = 0
  /\ k = 0
  /\ txt_file = <<>>
  /\ jsonl_file = <<>>
  /\ failed = {}
  /\ sig = NoSig

\* ----------------------------------------------------------- the sinks
\* json.dumps of a string: quotation marks and backslashes are escaped
RECURSIVE escape(_)
escape(str) ==
  IF str = <<>> THEN <<>>
  ELSE (IF Head(str) \in {"\"", "\\"} THEN <<"\\", Head(str)>>
        ELSE <<Head(str)>>) \o escape(Tail(str))

json_str(str) == <<"\"">> \o escape(str) \o <<"\"">>

\* json.dumps of a number; allow_nan is left at its default, so nan is
\* written as NaN
json_num(v) == IF v = NaN THEN "NaN" ELSE ToString(v)

\* json.dumps of a list of strings: a JSON array, as text
RECURSIVE json_items(_)
json_items(l) ==
  IF l = <<>> THEN <<>>
  ELSE json_str(Head(l)) \o
       (IF Len(l) > 1 THEN <<",">> ELSE <<>>) \o json_items(Tail(l))

\* and of a list of numbers
RECURSIVE json_nums(_)
json_nums(l) ==
  IF l = <<>> THEN <<>>
  ELSE <<json_num(Head(l))>> \o
       (IF Len(l) > 1 THEN <<",">> ELSE <<>>) \o json_nums(Tail(l))

json_key(name) == <<"\"", name, "\"", ":">>

json_dumps(l) == <<"[">> \o json_items(l) \o <<"]">>

\* the row "INSERT INTO telemetry_packets" adds (AUTOINCREMENT id); n is the
\* number of the line it comes from
packet_row(p, n) ==
  [id |-> Len(telemetry_packets) + 1,
   type |-> p.type,
   size_bytes |-> p.size_bytes,
   sender |-> p.sender,
   endpoints |-> json_dumps(p.endpoints),
   timestamp_ms |-> p.timestamp_ms,
   ln |-> n]

enumerate_from_one(i) == i

\* enumerate(pkt["values"]): the index of the i-th element (i from 1)
enumerate(i) == i - 1

\* the i-th tuple of the list handed to executemany
value_row(pid, vals, i) ==
  [packet_id |-> pid, idx |-> enumerate(i), value |-> vals[i]]

\* the line written to the text mirror
txt_line(p, n) ==
  [ln |-> n,
   text |-> [Type |-> p.type, Sender |-> p.sender, Endpoints |-> p.endpoints,
             Timestamp |-> p.timestamp_ms,
             TimestampHuman |-> p.timestamp_human, Data |-> p.values]]

\* out_obj
out_obj(p, a) ==
  LET o == [type |-> p.type, size_bytes |-> p.size_bytes,
            sender |-> p.sender, endpoints |-> p.endpoints,
            timestamp_ms |-> p.timestamp_ms,
            timestamp_human |-> p.timestamp_human, values |-> p.values,
            received_at |-> "utcnow"]
  IN  IF a.file_flag # "None" THEN [obj |-> o, flag |-> a.file_flag]
      ELSE [obj |-> o]

\* json.dumps(obj, ensure_ascii=False): the text of the object, its keys in
\* the order they were set
json_dumps_dict(d) ==
  <<"{">> \o
  json_key("type") \o json_str(<<d.obj.type>>) \o <<",">> \o
  json_key("size_bytes") \o <<json_num(d.obj.size_bytes)>> \o <<",">> \o
  json_key("sender") \o json_str(d.obj.sender) \o <<",">> \o
  json_key("endpoints") \o json_dumps(d.obj.endpoints) \o <<",">> \o
  json_key("timestamp_ms") \o <<json_num(d.obj.timestamp_ms)>> \o <<",">> \o
  json_key("timestamp_human") \o json_str(d.obj.timestamp_human) \o
  <<",">> \o
  json_key("values") \o <<"[">> \o json_nums(d.obj.values) \o <<"]">> \o
  <<",">> \o
  json_key("received_at") \o json_str(<<d.obj.received_at>>) \o
  (IF "flag" \in DOMAIN d
   THEN <<",">> \o json_key("flag") \o json_str(<<d.flag>>) ELSE <<>>) \o
  <<"}">>

\* the line append_jsonl writes
jsonl_line(p, a, n) == [ln |-> n, json |-> json_dumps_dict(out_obj(p, a))]

prepend_line(file, l) == <<l>> \o file

overwrite_line(file, l) == <<l>>

\* open(path, "a") ... write: the file with one line more at its end
append_line(file, l) == Append(file, l)

caught_serial_only(e) == e = "SerialException"

\* "except (SerialException, OSError)"
caught(e) == e \in {"SerialException", "OSError"}

\* ---------------------------------------------------------- the actions
\* _sigint: SIGINT or SIGTERM arrives, at any point of main
Signal ==
  /\ pc \notin {"done", "crashed"}
  /\ ~stopping
  /\ stopping' = TRUE
  /\ sig' = [inflight |-> pc \in DispatchPcs, ln |-> ln]
  /\ UNCHANGED <<viewer, args, pc, ser, reopened, polls, received, line, pkt, exc,
                 telemetry_packets, telemetry_values, packet_id, k, txt_file,
                 jsonl_file, failed>>

\* "while not stopping["stop"]:" and, when it ends, conn.close() and return
WhileStopping ==
  /\ pc = "loop"
  /\ pc' = IF stopping THEN "done" ELSE "open"
  /\ UNCHANGED <<viewer, args, stopping, ser, reopened, polls, received, line, pkt, exc,
                 telemetry_packets, telemetry_values, packet_id, k, txt_file,
                 jsonl_file, failed, sig>>

\* try_open_serial and "if ser is None: ... continue"
TryOpenSerial ==
  /\ pc = "open"
  /\ \/ /\ ser' = "open"
        /\ reopened' = (reopened \/ ser = "closed")
        /\ pc' = "read"
     \/ /\ pc' = "loop"
        /\ UNCHANGED <<ser, reopened>>
  /\ UNCHANGED <<viewer, args, stopping, polls, received, line, pkt, exc,
                 telemetry_packets, telemetry_values, packet_id, k, txt_file,
                 jsonl_file, failed, sig>>

\* read_lines: one ser.readline().  It returns a line, which is yielded to
\* the for loop of main; or it times out, and read_lines reads again; or it
\* raises SerialException, which ends the generator and so the for loop; or
\* it raises OSError, which main catches.
ReadLine ==
  /\ pc = "read"
  /\ \/ \E l \in DeviceLines :
          /\ Len(received) < MaxLines
          /\ received' = Append(received, l)
          /\ line' = l
          /\ pc' = "check"
          /\ UNCHANGED <<polls, exc>>
     \/ /\ polls' = 1 - polls
        /\ UNCHANGED <<received, line, pc, exc>>
     \/ /\ pc' = "finally"
        /\ UNCHANGED <<received, line, polls, exc>>
     \/ /\ exc' = "OSError"
        /\ pc' = "finally"
        /\ UNCHANGED <<received, line, polls>>
  /\ UNCHANGED <<viewer, args, stopping, ser, reopened, pkt, telemetry_packets,
                 telemetry_values, packet_id, k, txt_file, jsonl_file, failed,
                 sig>>

\* "if stopping["stop"]: break"
CheckStop ==
  /\ pc = "check"
  /\ pc' = IF stopping THEN "finally" ELSE "decode"
  /\ UNCHANGED <<viewer, args, stopping, ser, reopened, polls, received, line, pkt, exc,
                 telemetry_packets, telemetry_values, packet_id, k, txt_file,
                 jsonl_file, failed, sig>>

\* line.startswith(TELEM_PREFIX)
startswith(l, prefix) == l # <<>> /\ Head(l) = prefix

\* "if not pkt:"
rejected(p) == p = None

\* parse_packet_line, tabulated
parsed == [l \in KnownLines |-> parse_packet_line(l)]

\* the prefix filter, parse_packet_line and "if not pkt: ... continue"
Decode ==
  /\ pc = "decode"
  /\ IF ~startswith(line, TELEM_PREFIX)
     THEN pc' = "read" /\ UNCHANGED pkt
     ELSE LET p == parsed[line]
          IN  /\ pkt' = p
              /\ pc' = IF rejected(p) THEN "read" ELSE "db"
  /\ UNCHANGED <<viewer, args, stopping, ser, reopened, polls, received, line, exc,
                 telemetry_packets, telemetry_values, packet_id, k, txt_file,
                 jsonl_file, failed, sig>>

raise_and_go_on(sink, e) ==
  /\ exc' = exc
  /\ failed' = failed \cup {<<sink, ln>>}
  /\ pc' = CASE sink = "db" -> "txt" [] sink = "txt" -> "jsonl"
              [] sink = "jsonl" -> "read"

\* A sink raises: the exception leaves the body of the for loop.
raise(sink, e) ==
  /\ exc' = e
  /\ failed' = failed \cup {<<sink, ln>>}
  /\ pc' = "finally"

\* insert_packet, its first statement: the connection is in autocommit mode
\* (isolation_level=None), so the row is committed as the statement ends.
InsertPacketRow ==
  /\ pc = "db"
  /\ IF ~db_enabled(args)
     THEN /\ pc' = "txt"
          /\ UNCHANGED <<telemetry_packets, packet_id, k, exc, failed>>
     ELSE \/ /\ telemetry_packets' =
                  Append(telemetry_packets, packet_row(pkt, ln))
             /\ packet_id' = Len(telemetry_packets) + 1
             /\ k' = 0
             /\ pc' = IF pkt.values # <<>> THEN "db_values" ELSE "txt"
             /\ UNCHANGED <<exc, failed>>
          \/ /\ raise("db", "sqlite3.Error")
             /\ UNCHANGED <<telemetry_packets, packet_id, k>>
  /\ UNCHANGED <<viewer, args, stopping, ser, reopened, polls, received, line, pkt,
                 telemetry_values, txt_file, jsonl_file, sig>>

\* insert_packet, executemany: one more value row, committed as it is
\* inserted; after the last one conn.commit() (nothing is pending) and return
InsertValueRow ==
  /\ pc = "db_values"
  /\ \/ /\ telemetry_values' =
             Append(telemetry_values, value_row(packet_id, pkt.values, k + 1))
        /\ k' = k + 1
        /\ pc' = IF k + 1 = Len(pkt.values) THEN "txt" ELSE "db_values"
        /\ UNCHANGED <<exc, failed>>
     \/ /\ raise("db", "sqlite3.Error")
        /\ UNCHANGED <<telemetry_values, k>>
  /\ UNCHANGED <<viewer, args, stopping, ser, reopened, polls, received, line, pkt,
                 telemetry_packets, packet_id, txt_file, jsonl_file, sig>>

\* "if args.out_txt:" and the block that appends the line
WriteTxt ==
  /\ pc = "txt"
  /\ IF ~truthy(args.out_txt)
     THEN /\ pc' = "jsonl"
          /\ UNCHANGED <<txt_file, exc, failed>>
     ELSE \/ /\ txt_file' = append_line(txt_file, txt_line(pkt, ln))
             /\ pc' = "jsonl"
             /\ UNCHANGED <<exc, failed>>
          \/ /\ raise("txt", "OSError")
             /\ UNCHANGED txt_file
  /\ UNCHANGED <<viewer, args, stopping, ser, reopened, polls, received, line, pkt,
                 telemetry_packets, telemetry_values, packet_id, k, jsonl_file,
                 sig>>

\* "if args.out_jsonl:" and append_jsonl
WriteJsonl ==
  /\ pc = "jsonl"
  /\ IF ~truthy(args.out_jsonl)
     THEN /\ pc' = "read"
          /\ UNCHANGED <<jsonl_file, exc, failed>>
     ELSE \/ /\ jsonl_file' = append_line(jsonl_file, jsonl_line(pkt, args, ln))
             /\ pc' = "read"
             /\ UNCHANGED <<exc, failed>>
          \/ /\ raise("jsonl", "OSError")
             /\ UNCHANGED jsonl_file
  /\ UNCHANGED <<viewer, args, stopping, ser, reopened, polls, received, line, pkt,
                 telemetry_packets, telemetry_values, packet_id, k, txt_file,
                 sig>>

close_skipped(h) == h

\* ser.close()
close(h) == "closed"

\* the except and finally clauses: ser.close(); an exception the except
\* clause does not name goes on out of main
Finally ==
  /\ pc = "finally"
  /\ ser' = close(ser)
  /\ IF exc = "none" \/ caught(exc)
     THEN pc' = "loop" /\ exc' = "none"
     ELSE pc' = "crashed" /\ UNCHANGED exc
  /\ UNCHANGED <<viewer, args, stopping, reopened, polls, received, line, pkt,
                 telemetry_packets, telemetry_values, packet_id, k, txt_file,
                 jsonl_file, failed, sig>>

\* the steps of main
Step ==
  \/ WhileStopping
  \/ TryOpenSerial
  \/ ReadLine
  \/ CheckStop
  \/ Decode
  \/ InsertPacketRow
  \/ InsertValueRow
  \/ WriteTxt
  \/ WriteJsonl
  \/ Finally

Next == Signal \/ Step

Spec == Init /\ [][Next]_vars

\* The interpreter keeps running main: a step that can be taken is taken.
\* Nothing makes the device send a line or the signal arrive.
FairSpec == Spec /\ WF_vars(Step)

\* One line through the decoder and the sinks: the port is open, the line has
\* been read and the stop check passed.
DecoderInit ==
  /\ TelemetryTabsApp
  /\ args \in Configs
  /\ stopping = FALSE
  /\ pc = "decode"
  /\ ser = "open"
  /\ reopened = FALSE
  /\ polls = 0
  /\ line \in KnownLines
  /\ received = <<line>>
  /\ pkt = None
  /\ exc = "none"
  /\ telemetry_packets = <<>>
  /\ telemetry_values = <<>>
  /\ packet_id = 0
  /\ k = 0
  /\ txt_file = <<>>
  /\ jsonl_file = <<>>
  /\ failed = {}
  /\ sig = NoSig

DecoderNext ==
  \/ Decode
  \/ InsertPacketRow
  \/ InsertValueRow
  \/ WriteTxt
  \/ WriteJsonl

DecoderSpec == DecoderInit /\ [][DecoderNext]_vars

\* ------------------------------------------------------------ the viewer
never_returns_early(r) == FALSE

\* "if not self.running: return"
returns_early(r) == ~r

\* self.root.after(self.refresh_ms, self.update_loop): one more callback
after(n) == n + 1

\* The timer of an update_loop callback fires.  The callback returns at once,
\* or queries the store, redraws and schedules the next one, or an exception
\* of the queries ends it before it schedules anything.
update_loop ==
  /\ pending > 0
  /\ ~destroyed
  /\ IF returns_early(running)
     THEN /\ pending' = pending - 1
          /\ returned' = TRUE
          /\ UNCHANGED refreshes
     ELSE /\ refreshes < MaxRefreshes
          /\ refreshes' = refreshes + 1
          /\ UNCHANGED returned
          /\ \/ pending' = after(pending - 1)
             \/ pending' = pending - 1
  /\ UNCHANGED <<ingest, running, destroying, destroyed, closed>>

\* WM_DELETE_WINDOW: the user closes the window
on_close ==
  /\ ~destroyed
  /\ destroying < MaxCloses
  /\ running' = FALSE
  /\ destroying' = after(destroying)
  /\ closed' = TRUE
  /\ UNCHANGED <<ingest, pending, destroyed, returned, refreshes>>

\* the timer of a root.destroy callback fires: the window and every callback
\* still scheduled are gone, and mainloop returns
destroy ==
  /\ destroying > 0
  /\ ~destroyed
  /\ destroyed' = TRUE
  /\ pending' = 0
  /\ destroying' = 0
  /\ UNCHANGED <<ingest, running, closed, returned, refreshes>>

ViewerNext == update_loop \/ on_close \/ destroy

ViewerSpec == Init /\ [][ViewerNext]_vars

\* ------------------------------------------------------------ the claims
Terminated == pc \in {"done", "crashed"}

\* the packet the n-th line of the device decodes to
PacketOf(n) == parsed[received[n]]

\* What a query of another connection sees: the committed rows.
reader_view == [packets |-> telemetry_packets, values |-> telemetry_values]

\* the positions of the value rows of packet row id
IdxsOf(view, id) ==
  {view.values[j].idx :
     j \in {i \in DOMAIN view.values : view.values[i].packet_id = id}}

\* the packet of line n is being handed to the sinks
InFlight(n) == n = ln /\ pc \in DispatchPcs

\* the sink holds the whole packet of line n
Holds(sink, n) ==
  CASE sink = "db" ->
         \E i \in DOMAIN telemetry_packets :
           /\ telemetry_packets[i].ln = n
           /\ IdxsOf(reader_view, telemetry_packets[i].id) =
                0..(Len(PacketOf(n).values) - 1)
    [] sink = "txt" -> \E i \in DOMAIN txt_file : txt_file[i].ln = n
    [] sink = "jsonl" -> \E i \in DOMAIN jsonl_file : jsonl_file[i].ln = n

Configured ==
  (IF db_enabled(args) THEN {"db"} ELSE {}) \cup
  (IF truthy(args.out_txt) THEN {"txt"} ELSE {}) \cup
  (IF truthy(args.out_jsonl) THEN {"jsonl"} ELSE {})

\* the sinks main writes after this one
After(sink) ==
  CASE sink = "db" -> {"txt", "jsonl"}
    [] sink = "txt" -> {"jsonl"}
    [] sink = "jsonl" -> {}

\* C1: a reader of the store never sees a packet row without all of the
\* value rows of its packet (positions 0..N-1 for a packet of N values).
C1_NoPartialPacket ==
  \A i \in DOMAIN reader_view.packets :
    LET p == reader_view.packets[i]
    IN  IdxsOf(reader_view, p.id) = 0..(Len(PacketOf(p.ln).values) - 1)

\* C2: insert_packet is all or nothing: after a failed insert_packet the
\* store holds neither the packet row nor a value row of that packet.
C2_AllOrNothing ==
  \A f \in failed :
    f[1] = "db" =>
      \A i \in DOMAIN telemetry_packets : telemetry_packets[i].ln # f[2]

\* C3: a failure of one sink is isolated: the pipeline keeps running, and once
\* the packet's dispatch is over every configured sink after the failing one
\* holds the packet.
C3_SinkFailureIsolated ==
  \A f \in failed :
    /\ pc # "crashed"
    /\ ~InFlight(f[2]) =>
         \A s \in After(f[1]) \cap Configured : Holds(s, f[2])

\* C4: once the shutdown signal is set, main eventually has returned with the
\* serial handle closed.
C4_ShutdownTerminates == stopping ~> (Terminated /\ ser # "open")

\* C5: main leaves its run loop only when the shutdown signal has been set.
C5_OnlyShutdownTerminates == Terminated => stopping

\* C6: reconnect.  No open attempt is made with a handle still open; after a
\* failed open or a failed read (main is at the loop head or in its finally
\* clause with nothing uncaught), while no shutdown is signalled, another
\* open attempt follows; and a telemetry line received on any connection is
\* decoded and handed to the first sink unless shutdown is signalled.
C6_Reconnect ==
  /\ [](pc \in {"loop", "open"} => ser # "open")
  /\ ((pc \in {"loop", "finally"} /\ (exc = "none" \/ exc = "OSError")
         /\ ~stopping)
        ~> (pc = "open" \/ stopping))
  /\ ((pc = "check" /\ ~stopping /\ parsed[line] # None)
        ~> ((pc = "db" /\ pkt = parsed[line]) \/ stopping))

C6_Witness ==
  /\ reopened
  /\ pc = "db"
  /\ pkt = parsed[line]
  /\ failed = {}
  /\ ~stopping

\* the entries of a sink come from increasing lines of the device, each at
\* most once, and each is the packet of its line
Ordered(file) ==
  /\ \A i \in DOMAIN file : file[i].ln \in 1..Len(received)
  /\ \A i, j \in DOMAIN file : i < j => file[i].ln < file[j].ln

\* C7: what each sink has been given is, in order and without duplicates, a
\* subsequence of the lines received from the device.
C7_OrderedAtMostOnce ==
  /\ Ordered(telemetry_packets)
  /\ Ordered(txt_file)
  /\ Ordered(jsonl_file)
  /\ \A i \in DOMAIN telemetry_packets :
       telemetry_packets[i] =
         [packet_row(PacketOf(telemetry_packets[i].ln), telemetry_packets[i].ln)
            EXCEPT !.id = i]
  /\ \A i \in DOMAIN txt_file :
       txt_file[i] = txt_line(PacketOf(txt_file[i].ln), txt_file[i].ln)
  /\ \A i \in DOMAIN jsonl_file :
       jsonl_file[i] =
         jsonl_line(PacketOf(jsonl_file[i].ln), args, jsonl_file[i].ln)

\* the text mirror holds lines 1 and 2, and between them the JSON-lines
\* mirror failed and the port was opened again
C7_Witness ==
  /\ Len(txt_file) = 2
  /\ <<"jsonl", 1>> \in failed
  /\ reopened

\* the line is not a brace-delimited body: it lacks the closing brace, or
\* the decoder finds no match in it
Malformed(l) ==
  \/ l = <<>>
  \/ l[Len(l)] # "}"
  \/ parsed[l] = None

\* some table or file holds an entry that comes from line n
OnFile(n) ==
  \/ \E i \in DOMAIN telemetry_packets : telemetry_packets[i].ln = n
  \/ \E i \in DOMAIN txt_file : txt_file[i].ln = n
  \/ \E i \in DOMAIN jsonl_file : jsonl_file[i].ln = n

\* C8: a line that does not match the grammar is rejected with no side
\* effect: the step that decodes it changes no sink and goes on to the next
\* read, and no sink ever holds an entry that comes from such a line.
C8_RejectedNoSideEffects ==
  /\ [][(pc = "decode" /\ Malformed(line))
          => (sinks' = sinks /\ pc' \in {"read", "decode"})]_vars
  /\ [](\A n \in 1..Len(received) :
          Malformed(received[n]) => ~OnFile(n))
  /\ [](pc \in DispatchPcs => ~Malformed(line))

\* the line without its closing brace was read and rejected, and main is
\* reading the next line
C8_Witness ==
  /\ received = <<LineNoBrace>>
  /\ pc = "read"
  /\ ~reopened
  /\ ~stopping
  /\ sinks = <<<<>>, <<>>, <<>>, <<>>>>

\* C9: a packet in dispatch when the signal arrives is in every configured
\* sink when main has ended, and no line after it is written to any sink.
C9_InFlightFinishes ==
  /\ (Terminated /\ sig.inflight) =>
       \A s \in Configured : Holds(s, sig.ln)
  /\ stopping =>
       \A n \in 1..Len(received) :
         n > sig.ln => \A s \in {"db", "txt", "jsonl"} : ~Holds(s, n)

\* the comma-separated pieces of the payload of each line that matches
Payload ==
  [l \in {x \in KnownLines : PACKET_RE(strip(x)).matched} |->
     LET pieces == split(PACKET_RE(strip(l)).data, ",")
     IN  [i \in DOMAIN pieces |-> strip(pieces[i])]]

\* the pieces of the payload of line n, and the places of its numeric tokens
PiecesOf(n) == Payload[received[n]]

NumericAt(n) ==
  {i \in DOMAIN PiecesOf(n) :
     Len(PiecesOf(n)[i]) = 1 /\ PiecesOf(n)[i][1] \in FloatToks}

\* insert_packet has returned for packet row r
WriteComplete(r) ==
  /\ ~(pc = "db_values" /\ packet_id = r.id)
  /\ <<"db", r.ln>> \notin failed

\* C10: once a packet is written, its value rows carry the positions 0..N-1,
\* each once, and the row at position i holds the value of the numeric token
\* with i numeric tokens before it in the payload of the line.
C10_ValueOrder ==
  \A r \in DOMAIN telemetry_packets :
    LET row == telemetry_packets[r]
        mine == {j \in DOMAIN telemetry_values :
                   telemetry_values[j].packet_id = row.id}
        num == NumericAt(row.ln)
    IN  WriteComplete(row) =>
          /\ Cardinality(mine) = Cardinality(num)
          /\ {telemetry_values[j].idx : j \in mine} =
               0..(Cardinality(num) - 1)
          /\ \A j \in mine :
               \E q \in num :
                 /\ Cardinality({q2 \in num : q2 < q}) = telemetry_values[j].idx
                 /\ telemetry_values[j].value = float(PiecesOf(row.ln)[q][1])

\* the packet with the token that is no number is written: 3 at 0, 1 at 1
C10_Witness ==
  \E r \in DOMAIN telemetry_packets :
    /\ received[telemetry_packets[r].ln] = LineSkip
    /\ WriteComplete(telemetry_packets[r])
    /\ pc = "txt"

\* the packet the line of Scenario B stands for
ScenarioBPacket ==
  [type |-> "X", size_bytes |-> 5, sender |-> <<"A">>, endpoints |-> <<>>,
   timestamp_ms |-> 10, timestamp_human |-> <<>>, values |-> <<1, 2>>]

\* the lines of the tolerant grammar with the bare payload and nothing around
\* the body: the label or none, either size keyword, either payload keyword,
\* the parenthetical after the timestamp or none
TolerantLines ==
  {Line(c) : c \in {x \in Shapes : x.pre = <<>> /\ x.post = <<>> /\ ~x.wrapped}}

\* C11: the decoder accepts the tolerant grammar.  Once the line has gone
\* through the decoder, the line of Scenario B has given its packet (type X,
\* size 5, sender A, no endpoints, timestamp 10, no human timestamp, values
\* 1, 2), and every line of the tolerant grammar has given a packet.
C11_TolerantGrammar ==
  pc # "decode" =>
    /\ line = ScenarioB => pkt = ScenarioBPacket
    /\ line \in TolerantLines => pkt # None

\* where the payload keyword and the closing brace of a line are
DataAt(l) ==
  LET d == FirstIndex(l, 1, "Data:")
  IN  IF d > 0 THEN d ELSE FirstIndex(l, 1, "Error:")

CloseAt(l) == FirstIndex(l, 1, "}")

\* the payload of the line is written in parentheses
Wrapped(l) ==
  /\ DataAt(l) > 0
  /\ CloseAt(l) > DataAt(l) + 2
  /\ l[DataAt(l) + 1] = "("
  /\ l[CloseAt(l) - 1] = ")"

\* the same line with the payload written bare
Unwrap(l) ==
  SubSeq(l, 1, DataAt(l)) \o SubSeq(l, DataAt(l) + 2, CloseAt(l) - 2) \o
  SubSeq(l, CloseAt(l), Len(l))

\* C12: a payload written in parentheses decodes to the same values as the
\* payload written bare: a line whose bare form decodes gives a packet with
\* the values of the bare form.
C12_ParenthesesEquivalent ==
  (/\ pc # "decode"
   /\ Wrapped(line)
   /\ Unwrap(line) \in KnownLines
   /\ parsed[Unwrap(line)] # None)
    => (pkt # None /\ pkt.values = parsed[Unwrap(line)].values)

\* the line without the other text before and after its body
BodyOf(l) ==
  SubSeq(l, IF Tok(l, 1) = "#" THEN 2 ELSE 1,
            IF Tok(l, Len(l)) = "#" THEN Len(l) - 1 ELSE Len(l))

\* C13: other text before and after the body is tolerated: a line that is a
\* line the decoder accepts with other text before it or after it gives the
\* packet of that line.
C13_NoiseTolerated ==
  (/\ pc # "decode"
   /\ BodyOf(line) # line
   /\ parsed[BodyOf(line)] # None)
    => pkt = parsed[BodyOf(line)]

\* the places of the numeric tokens among the payload pieces of a line
NumericIn(l) ==
  {i \in DOMAIN Payload[l] :
     Len(Payload[l][i]) = 1 /\ Payload[l][i][1] \in FloatToks}

\* C14: a payload token that is no number is dropped without a placeholder
\* and without rejecting the packet: a telemetry line that matches the
\* pattern gives a packet, whose values are the numeric tokens of the
\* payload, as many and in their order.
C14_UnparseableDropped ==
  (/\ pc # "decode"
   /\ startswith(line, TELEM_PREFIX)
   /\ line \in DOMAIN Payload)
    => /\ pkt # None
       /\ Len(pkt.values) = Cardinality(NumericIn(line))
       /\ \A q \in NumericIn(line) :
            pkt.values[Cardinality({q2 \in NumericIn(line) : q2 <= q})] =
              float(Payload[line][q][1])

\* the line "3, x, 1" has been decoded to a packet with the values 3, 1
C14_Witness ==
  /\ line = LineSkip
  /\ pc = "db"
  /\ pkt # None
  /\ pkt.values = <<3, 1>>
  /\ received = <<LineSkip>>

\* Reading a line of the JSON-lines mirror back, by the JSON grammar: a value
\* is a string, a number, an array or an object.  A string is [str |-> its
\* characters], a number [num |-> its value], an array [list |-> its values]
\* and an object [object |-> its <<key, value>> pairs]; a token that starts
\* no value is [invalid |-> the token].
Numbers == {1, 2, 3, 5, 10, 12}

RECURSIVE scan_string(_, _, _)
scan_string(t, i, acc) ==
  IF i > Len(t) THEN [v |-> [invalid |-> "<end>"], next |-> i]
  ELSE IF t[i] = "\"" THEN [v |-> [str |-> acc], next |-> i + 1]
  ELSE IF t[i] = "\\" THEN scan_string(t, i + 2, Append(acc, Tok(t, i + 1)))
  ELSE scan_string(t, i + 1, Append(acc, t[i]))

RECURSIVE parse_value(_, _)
RECURSIVE parse_elements(_, _, _)
RECURSIVE parse_members(_, _, _)

parse_value(t, i) ==
  CASE Tok(t, i) = "\"" -> scan_string(t, i + 1, <<>>)
    [] Tok(t, i) = "[" ->
         IF Tok(t, i + 1) = "]" THEN [v |-> [list |-> <<>>], next |-> i + 2]
         ELSE parse_elements(t, i + 1, <<>>)
    [] Tok(t, i) = "{" -> parse_members(t, i + 1, <<>>)
    [] \E n \in Numbers : ToString(n) = Tok(t, i) ->
         [v |-> [num |-> CHOOSE n \in Numbers : ToString(n) = Tok(t, i)],
          next |-> i + 1]
    [] OTHER -> [v |-> [invalid |-> Tok(t, i)], next |-> i + 1]

parse_elements(t, i, acc) ==
  LET e == parse_value(t, i)
  IN  IF Tok(t, e.next) = ","
      THEN parse_elements(t, e.next + 1, Append(acc, e.v))
      ELSE [v |-> [list |-> Append(acc, e.v)], next |-> e.next + 1]

parse_members(t, i, acc) ==
  LET key == scan_string(t, i + 1, <<>>)
      val == parse_value(t, key.next + 1)
      member == <<key.v, val.v>>
  IN  IF Tok(t, val.next) = ","
      THEN parse_members(t, val.next + 1, Append(acc, member))
      ELSE [v |-> [object |-> Append(acc, member)], next |-> val.next + 1]

json_loads(t) == parse_value(t, 1).v.object

\* the texts json.dumps gives for the packets of the lines of the model, and
\* what each reads back as
JsonTexts ==
  {json_dumps_dict(out_obj(parsed[l], a)) :
     l \in {x \in KnownLines : parsed[x] # None}, a \in Configs}

loaded == [t \in JsonTexts |-> json_loads(t)]

read_back(t) == IF t \in JsonTexts THEN loaded[t] ELSE json_loads(t)

has(obj, name) == \E i \in DOMAIN obj : obj[i][1] = [str |-> <<name>>]

get(obj, name) ==
  IF has(obj, name)
  THEN obj[CHOOSE i \in DOMAIN obj : obj[i][1] = [str |-> <<name>>]][2]
  ELSE [missing |-> name]

strs(l) == [i \in DOMAIN l |-> [str |-> l[i]]]
nums(l) == [i \in DOMAIN l |-> [num |-> l[i]]]

\* the object read back has the fields of packet p
SameFields(obj, p) ==
  /\ get(obj, "type") = [str |-> <<p.type>>]
  /\ get(obj, "sender") = [str |-> p.sender]
  /\ get(obj, "endpoints") = [list |-> strs(p.endpoints)]
  /\ get(obj, "timestamp_ms") = [num |-> p.timestamp_ms]
  /\ get(obj, "timestamp_human") = [str |-> p.timestamp_human]
  /\ get(obj, "values") = [list |-> nums(p.values)]

\* C15: round trip.  Every line of the JSON-lines mirror, read back as JSON,
\* has the type, sender, endpoints, timestamp, human timestamp and values of
\* the packet it was written for, the lists in their order.
C15_JsonRoundTrip ==
  \A i \in DOMAIN jsonl_file :
    SameFields(read_back(jsonl_file[i].json), PacketOf(jsonl_file[i].ln))

\* C16: the prefix filter only saves work: a line it has discarded is a line
\* the decoder rejects.
C16_FilterIsShortCircuit ==
  (pc # "decode" /\ ~startswith(line, TELEM_PREFIX)) => parsed[line] = None

\* a mirror file holds a line of the packet of line n
Mirrored(n) ==
  \/ \E i \in DOMAIN txt_file : txt_file[i].ln = n
  \/ \E i \in DOMAIN jsonl_file : jsonl_file[i].ln = n

\* C17: the store is written before the mirrors: with persistence enabled
\* (no --no-db), a packet with a line in either mirror has its packet row in
\* the store.
C17_StoreBeforeMirrors ==
  args.no_db = "None" =>
    \A n \in 1..Len(received) :
      Mirrored(n) =>
        \E i \in DOMAIN telemetry_packets : telemetry_packets[i].ln = n

\* both packets are in the store and in both mirrors
C17_Witness ==
  /\ args.no_db = "None"
  /\ Len(telemetry_packets) = 2
  /\ Mirrored(1)
  /\ Mirrored(2)
  /\ Len(jsonl_file) = 2
  /\ pc = "read"

\* file f is file g with one more line at its end
OneMoreLine(f, g) == Len(g) = Len(f) + 1 /\ SubSeq(g, 1, Len(f)) = f

\* C18: the mirrors are append-only, one line for a packet.  A step leaves a
\* mirror as it is or adds one line at its end; the step that writes a
\* packet to a configured mirror adds one line; and the object of a line of
\* the JSON-lines mirror has the field flag, with the configured value, if
\* and only if a flag is configured.
C18_AppendOnly ==
  /\ [][/\ txt_file' = txt_file \/ OneMoreLine(txt_file, txt_file')
        /\ jsonl_file' = jsonl_file \/ OneMoreLine(jsonl_file, jsonl_file')]_vars
  /\ [][(pc = "txt" /\ pc' = "jsonl" /\ truthy(args.out_txt))
          => OneMoreLine(txt_file, txt_file')]_vars
  /\ [][(pc = "jsonl" /\ pc' = "read" /\ truthy(args.out_jsonl))
          => OneMoreLine(jsonl_file, jsonl_file')]_vars
  /\ [](\A i \in DOMAIN jsonl_file :
          LET obj == read_back(jsonl_file[i].json)
          IN  /\ has(obj, "flag") <=> args.file_flag # "None"
              /\ has(obj, "flag") =>
                   get(obj, "flag") = [str |-> <<args.file_flag>>])

\* two packets are in each mirror, the flag is configured
C18_Witness ==
  /\ Len(txt_file) = 2
  /\ Len(jsonl_file) = 2
  /\ args.file_flag = "TELEM"
  /\ has(read_back(jsonl_file[2].json), "flag")

\* C19: at most one serial handle is open.  No handle is open when main is at
\* the head of its loop, makes an open attempt or has ended, whether by
\* return or by an exception; and a handle is opened only with none open.
C19_OneHandle ==
  /\ [](pc \in {"loop", "open", "done", "crashed"} => ser # "open")
  /\ [][(ser' = "open" /\ pc = "open") => ser # "open"]_vars

\* the port was opened a second time, a sink raised in dispatch, and main
\* has ended with the handle closed
C19_Witness ==
  /\ pc = "crashed"
  /\ ser = "closed"
  /\ reopened
  /\ failed # {}

\* C20: in the viewer at most one update_loop callback is scheduled, and
\* once on_close has run no update_loop queries the store, redraws or
\* schedules another callback.
C20_OneRefreshPending ==
  /\ [](pending <= 1)
  /\ [][closed => (refreshes' = refreshes /\ pending' <= pending)]_vars

\* after some refreshes the window was closed, and the callback that was
\* scheduled has run and returned at its first test
C20_Witness ==
  /\ closed
  /\ returned
  /\ ~destroyed
  /\ pending = 0
  /\ refreshes > 0

====
